---- MODULE Spec2Model ----
(***************************************************************************)
(* A model of converter.py: the conversion of archived Quora pages into    *)
(* portable HTML.  The model covers parse_quora_date, cleanup_tree and the *)
(* main loop over the input files.                                         *)
(*                                                                         *)
(* Strings are modelled as sequences of tokens.  A token is a literal      *)
(* piece of text or a decimal number, so that the regular expressions of   *)
(* the source become patterns over tokens.                                 *)
(***************************************************************************)
EXTENDS Integers, Sequences, FiniteSets, TLC

VARIABLES
    origin,       \* origin instant, seconds since the epoch (line 283)
    date_str,     \* argument of parse_quora_date in the date specification
    new_time,     \* its result in the date specification
    no_download,  \* args.no_download
    nfiles,       \* the number of .html files in the input directory
    fi,           \* index, in sorted order, of the file the main loop is at
    page,         \* the parsed content of that file, as it was read
    pc,           \* position of the main program
    dom,          \* the nodes of the current document (minidom objects)
    regs,         \* title_node, answer_node, question_node, post_node, date_node
    outs,         \* body_node, answer_out_node, question_out_node, new_page
    stack,        \* the activation records of cleanup_tree
    disk,         \* the files of the output directory
    lastImg,      \* history: the latest pass through the image branch
    saved,        \* history: the indices of the files whose page was written
    exc           \* the uncaught exception that ended the program, if any

vars == <<origin, date_str, new_time, no_download, nfiles, fi, page, pc, dom,
          regs, outs, stack, disk, lastImg, saved, exc>>

(***************************************************************************)
(* Strings as token sequences                                              *)
(***************************************************************************)
Lit(s) == [k |-> "lit", n |-> 0, s |-> s]
Num(n) == [k |-> "num", n |-> n, s |-> ""]

IsNum(t) == t.k = "num"
IsLit(t, s) == t.k = "lit" /\ t.s = s

\* Python's list[i] and list.index(x) on a TLA+ sequence (0-based there).
PyIndex(seq, x) == (CHOOSE i \in 1..Len(seq) : seq[i] = x) - 1

(***************************************************************************)
(* time.gmtime: the calendar fields the source reads (tm_year, tm_mon,     *)
(* tm_mday, tm_wday with Monday = 0).                                      *)
(***************************************************************************)
IsLeap(y) == (y % 4 = 0 /\ y % 100 # 0) \/ y % 400 = 0

DaysInMonth(m, y) ==
    IF m = 2 THEN (IF IsLeap(y) THEN 29 ELSE 28)
    ELSE IF m \in {4, 6, 9, 11} THEN 30 ELSE 31

gmtime(t) ==
    LET days == t \div 86400
        z    == days + 719468
        era  == z \div 146097
        doe  == z - era * 146097
        yoe  == (doe - (doe \div 1460) + (doe \div 36524) - (doe \div 146096)) \div 365
        doy  == doe - (365 * yoe + (yoe \div 4) - (yoe \div 100))
        mp   == (5 * doy + 2) \div 153
        d    == doy - ((153 * mp + 2) \div 5) + 1
        m    == IF mp < 10 THEN mp + 3 ELSE mp - 9
        y    == yoe + era * 400 + (IF m <= 2 THEN 1 ELSE 0)
    IN  [tm_year |-> y, tm_mon |-> m, tm_mday |-> d, tm_wday |-> (days + 3) % 7]

days_of_week == <<"Mon", "Tue", "Wed", "Thu", "Fri", "Sat", "Sun">>
months_of_year == <<"Jan", "Feb", "Mar", "Apr", "May", "Jun",
                    "Jul", "Aug", "Sep", "Oct", "Nov", "Dec">>

SeqRange(seq) == {seq[i] : i \in 1..Len(seq)}

\* time.strptime(date_str, '%b %d, %Y') on a string that matched m5.
strptime(mon, day, year) ==
    LET m == PyIndex(months_of_year, mon) + 1
    IN  IF year >= 1000 /\ year <= 9999 /\ day >= 1 /\ day <= DaysInMonth(m, year)
        THEN [exc |-> "none", tm |-> [tm_year |-> year, tm_mon |-> m,
                                      tm_mday |-> day, tm_wday |-> 0]]
        ELSE [exc |-> "ValueError", tm |-> gmtime(0)]

\* The regular expressions m0..m6 of parse_quora_date over token strings.
m0(s) == Len(s) = 1 /\ IsLit(s[1], "just now")
m1(s) == Len(s) = 2 /\ IsNum(s[1]) /\ IsLit(s[2], "m ago")
m2(s) == Len(s) = 2 /\ IsNum(s[1]) /\ IsLit(s[2], "h ago")
m3(s) == Len(s) = 1 /\ s[1].k = "lit" /\ s[1].s \in SeqRange(days_of_week)
m4(s) == /\ Len(s) = 3
         /\ s[1].k = "lit" /\ s[1].s \in SeqRange(months_of_year)
         /\ IsLit(s[2], " ") /\ IsNum(s[3])
m5(s) == /\ Len(s) = 5
         /\ s[1].k = "lit" /\ s[1].s \in SeqRange(months_of_year)
         /\ IsLit(s[2], " ") /\ IsNum(s[3]) /\ IsLit(s[4], ", ") /\ IsNum(s[5])
m6(s) == Len(s) = 2 /\ IsNum(s[1]) /\ (IsLit(s[2], "am") \/ IsLit(s[2], "pm"))

\* The while loops of lines 54-61 and 66-73: the first offset in 1..limit
\* whose day satisfies the test, or 0 when the loop runs out (the else).
\* hit[off] is the outcome of the test of line 57 or 69 for that offset.
WalkBack(limit, hit) ==
    LET hits == {off \in 1..limit : hit[off]}
    IN  IF hits = {} THEN 0
        ELSE CHOOSE off \in hits : \A q \in hits : off <= q

\* Line 80: months_of_year[tm.tm_mon], a 0-based list indexed by a month
\* number in 1..12.
MonthName(tm) ==
    IF tm.tm_mon + 1 <= Len(months_of_year)
    THEN [exc |-> "none", s |-> months_of_year[tm.tm_mon + 1]]
    ELSE [exc |-> "IndexError", s |-> ""]

Render(name, tm) ==
    <<Lit(name), Lit(" "), Num(tm.tm_mday), Lit(", "), Num(tm.tm_year)>>

Raise(e) == [exc |-> e, val |-> <<>>]

Format(tm) ==
    LET mn == MonthName(tm)
    IN  IF mn.exc # "none" THEN Raise(mn.exc)
        ELSE [exc |-> "none", val |-> Render(mn.s, tm)]

parse_quora_date(o, s) ==
    IF m0(s) \/ m6(s) THEN Format(gmtime(o))
    ELSE IF m1(s) THEN Format(gmtime(o - 60 * s[1].n))
    ELSE IF m2(s) THEN Format(gmtime(o - 3600 * s[1].n))
    ELSE IF m3(s) THEN
        LET day_of_week == PyIndex(days_of_week, s[1].s)
            tm(offset) == gmtime(o - 86400 * offset)
            off == WalkBack(7, [offset \in 1..7 |->
                                   tm(offset).tm_wday = day_of_week])
        IN  IF off = 0 THEN Raise("ValueError")
            ELSE Format(gmtime(o - 86400 * off))
    ELSE IF m4(s) THEN
        LET month_of_year == PyIndex(months_of_year, s[1].s) + 1
            day_of_month == s[3].n
            tm(offset) == gmtime(o - 86400 * offset)
            off == WalkBack(366, [offset \in 1..366 |->
                                     /\ tm(offset).tm_mon = month_of_year
                                     /\ tm(offset).tm_mday = day_of_month])
        IN  IF off = 0 THEN Raise("ValueError")
            ELSE Format(gmtime(o - 86400 * off))
    ELSE IF m5(s) THEN
        LET r == strptime(s[1].s, s[3].n, s[5].n)
        IN  IF r.exc # "none" THEN Raise(r.exc) ELSE Format(r.tm)
    ELSE Raise("ValueError")

(***************************************************************************)
(* The DOM: xml.dom.minidom objects.  dom is a sequence of nodes; a node   *)
(* is known by its index.  kids is childNodes, parent is parentNode        *)
(* (0 for None).  An attribute value is a token string; attrs maps the     *)
(* names of the attributes present to their values.                        *)
(***************************************************************************)
NoAttrs == <<>>

Node(kind, tag, attrs, data) ==
    [kind |-> kind, tag |-> tag, attrs |-> attrs, data |-> data,
     kids |-> <<>>, parent |-> 0]

\* Element.getAttribute: the empty string for an attribute that is absent.
getAttribute(n, a) == IF a \in DOMAIN n.attrs THEN n.attrs[a] ELSE <<>>

SetAttr(attrs, a, v) ==
    [x \in (DOMAIN attrs) \cup {a} |-> IF x = a THEN v ELSE attrs[x]]

\* Element.setAttribute on node id of heap h.
setAttribute(h, id, a, v) ==
    [h EXCEPT ![id].attrs = SetAttr(h[id].attrs, a, v)]

\* Document.createElement / createTextNode: the new node is the last of the heap.
createElement(h, tag) == Append(h, Node("element", tag, NoAttrs, <<>>))
createTextNode(h, data) == Append(h, Node("text", "#text", NoAttrs, data))

RemoveFirst(seq, x) ==
    LET i == CHOOSE j \in 1..Len(seq) : seq[j] = x /\ \A q \in 1..(j-1) : seq[q] # x
    IN  SubSeq(seq, 1, i - 1) \o SubSeq(seq, i + 1, Len(seq))

\* Node.appendChild: a node that has a parent is first removed from it.
appendChild(h, p, c) ==
    LET old == h[c].parent
        h1 == IF old = 0 THEN h
              ELSE [h EXCEPT ![old].kids = RemoveFirst(h[old].kids, c)]
    IN  [h1 EXCEPT ![p].kids = Append(h1[p].kids, c), ![c].parent = p]

firstChild(h, id) == IF h[id].kids = <<>> THEN 0 ELSE h[id].kids[1]

\* Node.cloneNode(False): a copy without children and without a parent.
cloneShallow(h, id) ==
    Append(h, Node(h[id].kind, h[id].tag, h[id].attrs, h[id].data))

\* Node.cloneNode(True): the copy of id is node Len(h) + 1 of the result.
RECURSIVE cloneDeep(_, _)
RECURSIVE cloneKids(_, _, _, _)
cloneKids(h, kids, i, into) ==
    IF i > Len(kids) THEN h
    ELSE LET c  == Len(h) + 1
             h1 == cloneDeep(h, kids[i])
         IN  cloneKids(appendChild(h1, into, c), kids, i + 1, into)
cloneDeep(h, id) ==
    LET c == Len(h) + 1
    IN  cloneKids(cloneShallow(h, id), h[id].kids, 1, c)

\* The element descendants of id in document order (getElementsByTagName).
RECURSIVE Descendants(_, _)
RECURSIVE DescendantsOf(_, _, _)
DescendantsOf(h, kids, i) ==
    IF i > Len(kids) THEN <<>>
    ELSE <<kids[i]>> \o Descendants(h, kids[i]) \o DescendantsOf(h, kids, i + 1)
Descendants(h, id) == DescendantsOf(h, h[id].kids, 1)

getElementsByTagName(h, id, tag) ==
    LET Test(x) == h[x].kind = "element" /\ h[x].tag = tag
    IN  SelectSeq(Descendants(h, id), Test)

\* get_text_content: the data of the text children, concatenated.
RECURSIVE ConcatText(_, _, _)
ConcatText(h, kids, i) ==
    IF i > Len(kids) THEN <<>>
    ELSE (IF h[kids[i]].kind = "text" THEN h[kids[i]].data ELSE <<>>)
         \o ConcatText(h, kids, i + 1)
get_text_content(h, id) == ConcatText(h, h[id].kids, 1)

\* get_title_node: the first title element, 0 for None.
get_title_node(h) ==
    LET ts == getElementsByTagName(h, 1, "title")
    IN  IF ts = <<>> THEN 0 ELSE ts[1]

(***************************************************************************)
(* Trees as values: what the parser delivers and what the serializer is    *)
(* given.  Load builds the nodes of a tree in document order; Struct reads *)
(* a node of the heap back as a tree.                                      *)
(***************************************************************************)
Tree(kind, tag, attrs, data, kids) ==
    [kind |-> kind, tag |-> tag, attrs |-> attrs, data |-> data, kids |-> kids]
Txt(s) == Tree("text", "#text", NoAttrs, <<Lit(s)>>, <<>>)
TxtT(toks) == Tree("text", "#text", NoAttrs, toks, <<>>)
Elt(tag, kids) == Tree("element", tag, NoAttrs, <<>>, kids)
EltA(tag, attrs, kids) == Tree("element", tag, attrs, <<>>, kids)
EltC(tag, cls, kids) == Tree("element", tag, [class |-> cls], <<>>, kids)
Cmt(s) == Tree("comment", "#comment", NoAttrs, <<Lit(s)>>, <<>>)

RECURSIVE Load(_, _, _)
RECURSIVE LoadKids(_, _, _, _)
LoadKids(h, kids, i, into) ==
    IF i > Len(kids) THEN h
    ELSE LET h1 == Load(h, kids[i], into)
         IN  \* the test has TLC build h1 before it goes on to the next child
             IF h1 = <<>> THEN h1 ELSE LoadKids(h1, kids, i + 1, into)
Load(h, t, into) ==
    LET id == Len(h) + 1
        h1 == Append(h, Node(t.kind, t.tag, t.attrs, t.data))
        h2 == IF into = 0 THEN h1 ELSE appendChild(h1, into, id)
    IN  LoadKids(h2, t.kids, 1, id)

RECURSIVE Struct(_, _)
Struct(h, id) ==
    Tree(h[id].kind, h[id].tag, h[id].attrs, h[id].data,
         [i \in 1..Len(h[id].kids) |-> Struct(h, h[id].kids[i])])

(***************************************************************************)
(* Strings of the page: class lists, addresses, embed descriptors          *)
(***************************************************************************)
\* Python's  marker in string : the marker occurs anywhere in the string.
Contains(s, marker) == \E i \in 1..Len(s) : IsLit(s[i], marker)

\* str.split(): the maximal pieces between spaces.
RECURSIVE SplitFrom(_, _, _)
SplitFrom(s, i, cur) ==
    IF i > Len(s) THEN (IF cur = <<>> THEN <<>> ELSE <<cur>>)
    ELSE IF IsLit(s[i], " ")
         THEN (IF cur = <<>> THEN <<>> ELSE <<cur>>) \o SplitFrom(s, i + 1, <<>>)
         ELSE SplitFrom(s, i + 1, Append(cur, s[i]))
split(s) == SplitFrom(s, 1, <<>>)

\* Python's  marker in string.split().
InSplit(s, marker) == <<Lit(marker)>> \in SeqRange(split(s))

StartsWith(s, pre) == Len(s) >= Len(pre) /\ SubSeq(s, 1, Len(pre)) = pre

Slash == Lit("/")
Query == Lit("?")
Png == Lit(".png")

\* The end of the run of [^/?] that starts at position i of s.
RECURSIVE RunEnd(_, _)
RunEnd(s, i) ==
    IF i <= Len(s) /\ s[i] # Slash /\ s[i] # Query THEN RunEnd(s, i + 1) ELSE i - 1

\* re.search('/([^/?]+)(\?|$)', src): the positions where the pattern matches.
NameStarts(s) ==
    {i \in 1..Len(s) : /\ s[i] = Slash
                       /\ RunEnd(s, i + 1) >= i + 1
                       /\ (RunEnd(s, i + 1) = Len(s) \/ s[RunEnd(s, i + 1) + 1] = Query)}

\* Lines 190-195: the local file name of an image address; <<>> when the
\* search finds nothing (m is None).
ImageFilename(s) ==
    IF NameStarts(s) = {} THEN <<>>
    ELSE LET i == CHOOSE j \in NameStarts(s) : \A q \in NameStarts(s) : j <= q
             name == SubSeq(s, i + 1, RunEnd(s, i + 1))
         IN  IF name[Len(name)] = Png THEN name ELSE Append(name, Png)

\* urllib.request.urlopen raises ValueError for an address without a scheme.
HasScheme(s) == s # <<>> /\ IsLit(s[1], "http:")

IframeOpen == Lit("<iframe src=")
IframeClose == Lit("></iframe>")

\* Lines 128-131: iframe_doc.documentElement.childNodes[1].firstChild of the
\* parsed descriptor: the first node of the body.
ParseEmbed(s) ==
    IF Len(s) >= 2 /\ s[1] = IframeOpen /\ s[Len(s)] = IframeClose
    THEN Node("element", "iframe", [src |-> SubSeq(s, 2, Len(s) - 1)], <<>>)
    ELSE IF s[1] = Lit("<p>") THEN Node("element", "p", NoAttrs, <<>>)
    ELSE Node("text", "#text", NoAttrs, s)

(***************************************************************************)
(* cleanup_tree.  An activation record holds src, dest, the position i of  *)
(* the iterator over src.childNodes (the list itself, so a child removed   *)
(* during the loop shifts the ones after it), and the node the caller      *)
(* appends when the call returns.  kids0 and seen are history: the         *)
(* children src had when the call began and the children visited.          *)
(***************************************************************************)
\* An uncaught exception: its type, the function it left (at) and, for
\* cleanup_tree, the branch that raised it.
NoExc == [type |-> "none", at |-> "", rule |-> ""]
Exc(type, at, rule) == [type |-> type, at |-> at, rule |-> rule]

Frame(h, src, dest, postNode, postInto) ==
    [src |-> src, dest |-> dest, i |-> 1, postNode |-> postNode,
     postInto |-> postInto, kids0 |-> h[src].kids, seen |-> <<>>]

PassThroughTags == {"b", "i", "u", "h1", "h2", "ol", "ul", "li", "blockquote", "wbr", "p"}

\* The if/elif chain of lines 97-258: the branch taken for node n.
Rule(n) ==
    IF n.kind = "text" THEN "text"
    ELSE IF n.kind # "element" THEN "raise"
    ELSE IF n.tag \in {"br", "hr"} THEN "void"
    ELSE IF n.tag \in PassThroughTags THEN "passthrough"
    ELSE IF Contains(getAttribute(n, "class"), "question_text") THEN "title"
    ELSE IF Contains(getAttribute(n, "class"), "board_item_title") THEN "title"
    ELSE IF getAttribute(n, "data-embed") # <<>> THEN "embed"
    ELSE IF Contains(getAttribute(n, "class"), "inline_codeblock") THEN "inline"
    ELSE IF \/ Contains(getAttribute(n, "class"), "ContentFooter")
            \/ Contains(getAttribute(n, "class"), "hidden") THEN "skip"
    ELSE IF n.tag \in {"span", "div"} THEN "unwrap"
    ELSE IF n.tag = "a" THEN "a"
    ELSE IF n.tag = "img" THEN "img"
    ELSE IF Contains(getAttribute(n, "class"), "codeblocktable") THEN "codeblock"
    ELSE "other"

Top == stack[Len(stack)]
Running == pc \in {"question", "content", "tree"} /\ stack # <<>>
HasChild == Top.i <= Len(dom[Top.src].kids)
Child == dom[Top.src].kids[Top.i]
At(rule) == Running /\ HasChild /\ Rule(dom[Child]) = rule

\* The loop goes on to the next position of the list.
Advance == [stack EXCEPT ![Len(stack)].i = @ + 1,
                         ![Len(stack)].seen = Append(@, Child)]

\* An exception nothing catches leaves cleanup_tree and ends the program.
Propagate(type) ==
    /\ pc' = "crashed"
    /\ exc' = Exc(type, "cleanup_tree", Rule(dom[Child]))
    /\ stack' = <<>>

New(h) == Len(h) + 1

\* What cleanup_tree never touches.
mainVars == <<origin, date_str, new_time, no_download, nfiles, fi, page, regs, outs,
              saved>>

\* Lines 97-100 and 105-106: a text node, br or hr is cloned without children.
CleanupClone ==
    /\ Running /\ HasChild /\ Rule(dom[Child]) \in {"text", "void"}
    /\ dom' = appendChild(cloneShallow(dom, Child), Top.dest, New(dom))
    /\ stack' = Advance
    /\ UNCHANGED <<mainVars, pc, exc, disk, lastImg>>

\* Lines 101-103: any other node that is not an element.
CleanupNonElement ==
    /\ At("raise")
    /\ Propagate("ValueError")
    /\ UNCHANGED <<mainVars, dom, disk, lastImg>>

\* Lines 107-111: new_node is appended once the recursive call has returned.
CleanupPassThrough ==
    /\ At("passthrough")
    /\ dom' = createElement(dom, dom[Child].tag)
    /\ stack' = Append(Advance, Frame(dom, Child, New(dom), New(dom), Top.dest))
    /\ UNCHANGED <<mainVars, pc, exc, disk, lastImg>>

\* Lines 112-123: the child itself is appended to the new h1, which takes it
\* out of src.childNodes while the loop is iterating over that list.
CleanupTitle ==
    /\ At("title")
    /\ LET h1 == createElement(dom, "h1")
           new_node == New(dom)
           h2 == appendChild(h1, new_node, Child)
       IN  dom' = appendChild(h2, Top.dest, new_node)
    /\ stack' = Advance
    /\ UNCHANGED <<mainVars, pc, exc, disk, lastImg>>

\* Lines 124-146: every failure inside the try is caught (except Exception).
CleanupEmbed ==
    /\ At("embed")
    /\ LET iframe == ParseEmbed(getAttribute(dom[Child], "data-embed"))
           ok == iframe.kind = "element" /\ iframe.tag = "iframe"
           h1 == Append(dom, iframe)
           new_node == New(dom)
           src == getAttribute(iframe, "src")
           h2 == IF StartsWith(src, <<Slash, Slash>>)
                 THEN setAttribute(h1, new_node, "src", <<Lit("http:")>> \o src)
                 ELSE h1
           h3 == setAttribute(h2, new_node, "width", <<Num(525)>>)
           h4 == setAttribute(h3, new_node, "height", <<Num(295)>>)
       IN  dom' = IF ok THEN appendChild(h4, Top.dest, new_node)
                  ELSE appendChild(cloneDeep(dom, Child), Top.dest, New(dom))
    /\ stack' = Advance
    /\ UNCHANGED <<mainVars, pc, exc, disk, lastImg>>

\* The exceptions the handler of line 157 catches.
InlineCaught == {"ValueError"}

\* Lines 151-153: what  span = child.firstChild.firstChild  and the test of
\* span.tagName raise: AttributeError when a step of the path is None or
\* the node has no tagName, ValueError when the tag is not span.
InlineFailure(h, child) ==
    LET first == firstChild(h, child)
        span == IF first = 0 THEN 0 ELSE firstChild(h, first)
    IN  IF first = 0 \/ span = 0 THEN "AttributeError"
        ELSE IF h[span].kind # "element" THEN "AttributeError"
        ELSE IF h[span].tag # "span" THEN "ValueError"
        ELSE "none"

\* Lines 147-160.
CleanupInlineCode ==
    /\ At("inline")
    /\ LET failure == InlineFailure(dom, Child)
           span == firstChild(dom, firstChild(dom, Child))
           h1 == createElement(dom, "code")
           code_element == New(dom)
           h2 == createTextNode(h1, get_text_content(dom, span))
           h3 == appendChild(h2, code_element, New(h1))
       IN  IF failure = "none"
           THEN /\ dom' = appendChild(h3, Top.dest, code_element)
                /\ stack' = Advance
                /\ UNCHANGED <<pc, exc>>
           ELSE IF failure \in InlineCaught
           THEN /\ dom' = appendChild(cloneDeep(dom, Child), Top.dest, New(dom))
                /\ stack' = Advance
                /\ UNCHANGED <<pc, exc>>
           ELSE /\ Propagate(failure)
                /\ UNCHANGED dom
    /\ UNCHANGED <<mainVars, disk, lastImg>>

\* Lines 161-163.
CleanupSkip ==
    /\ At("skip")
    /\ stack' = Advance
    /\ UNCHANGED <<mainVars, dom, pc, exc, disk, lastImg>>

\* Lines 164-166: the contents go straight into dest.
CleanupUnwrap ==
    /\ At("unwrap")
    /\ stack' = Append(Advance, Frame(dom, Child, Top.dest, 0, 0))
    /\ UNCHANGED <<mainVars, dom, pc, exc, disk, lastImg>>

QuoraHost == <<Lit("http:"), Slash, Slash, Lit("quora.com")>>

\* Lines 168-176: the new a is appended before the recursive call.
CleanupAnchor ==
    /\ At("a")
    /\ LET h1 == createElement(dom, "a")
           new_node == New(dom)
           href == getAttribute(dom[Child], "href")
           full == IF StartsWith(href, <<Slash>>) THEN QuoraHost \o href ELSE href
           h2 == setAttribute(h1, new_node, "href", full)
       IN  /\ dom' = appendChild(h2, Top.dest, new_node)
           /\ stack' = Append(Advance, Frame(dom, Child, new_node, 0, 0))
    /\ UNCHANGED <<mainVars, pc, exc, disk, lastImg>>

\* Lines 235-254: one line per div inside, each the text of its spans.
RECURSIVE JoinSpans(_, _, _)
JoinSpans(h, spans, i) ==
    IF i > Len(spans) THEN <<>>
    ELSE get_text_content(h, spans[i]) \o JoinSpans(h, spans, i + 1)
RECURSIVE JoinLines(_, _, _)
JoinLines(h, divs, i) ==
    IF i > Len(divs) THEN <<>>
    ELSE (IF i > 1 THEN <<Lit("\n")>> ELSE <<>>)
         \o JoinSpans(h, getElementsByTagName(h, divs[i], "span"), 1)
         \o JoinLines(h, divs, i + 1)

CleanupCodeBlock ==
    /\ At("codeblock")
    /\ LET h1 == createElement(dom, "pre")
           pre_node == New(dom)
           h2 == createElement(h1, "code")
           code_node == New(h1)
           divs == getElementsByTagName(dom, Child, "div")
           h3 == createTextNode(h2, JoinLines(dom, divs, 1))
           h4 == appendChild(h3, code_node, New(h2))
           h5 == appendChild(h4, pre_node, code_node)
       IN  dom' = appendChild(h5, Top.dest, pre_node)
    /\ stack' = Advance
    /\ UNCHANGED <<mainVars, pc, exc, disk, lastImg>>

\* Lines 255-258: an unrecognised element is copied as it is.
CleanupOther ==
    /\ At("other")
    /\ dom' = appendChild(cloneDeep(dom, Child), Top.dest, New(dom))
    /\ stack' = Advance
    /\ UNCHANGED <<mainVars, pc, exc, disk, lastImg>>

\* The return as it would be were line 111 missing: the element made for a
\* pass-through child is never put into the destination.
CleanupReturnUnattached ==
    /\ Running /\ ~HasChild
    /\ dom' = dom
    /\ stack' = SubSeq(stack, 1, Len(stack) - 1)
    /\ UNCHANGED <<mainVars, pc, exc, disk, lastImg>>

\* The for loop of line 96 ends: the call returns, and the caller of lines
\* 110-111 appends new_node.
CleanupReturn ==
    /\ Running /\ ~HasChild
    /\ dom' = IF Top.postNode = 0 THEN dom
              ELSE appendChild(dom, Top.postInto, Top.postNode)
    /\ stack' = SubSeq(stack, 1, Len(stack) - 1)
    /\ UNCHANGED <<mainVars, pc, exc, disk, lastImg>>

(***************************************************************************)
(* The image branch, lines 177-234.  What the file system and the network  *)
(* answer is the environment's choice: env.create, env.fetch, env.write    *)
(* and env.remove are the outcomes of os.open (when the file does not      *)
(* exist), urlopen().read(), os.write and os.remove.                       *)
(***************************************************************************)
ImgEnv(create, fetch, write, remove) ==
    [create |-> create, fetch |-> fetch, write |-> write, remove |-> remove]

\* HTTPException stands for the errors of urlopen().read() that are neither
\* URLError nor OSError (http.client.IncompleteRead and the like).
ImgEnvs ==
    {ImgEnv("ok", "ok", "ok", "ok"), ImgEnv("OSError", "ok", "ok", "ok")}
    \cup {ImgEnv("ok", f, "ok", r) : f \in {"URLError", "HTTPException"},
                                      r \in {"ok", "OSError"}}
    \cup {ImgEnv("ok", "ok", "OSError", r) : r \in {"ok", "OSError"}}

\* The except clauses of lines 227-232.
ImgCaught == {"URLError", "OSError", "ValueError"}

OnDisk(d, name) == \E f \in d : f.name = name
File(name, content) == [name |-> name, content |-> content]

\* The image branch as it would be were the file opened without O_EXCL: a
\* file that is there is opened, fetched again and written over.
LocaliseOverwriting(d, src, env) ==
    LET filename == ImageFilename(src)
        fetch == IF HasScheme(src) THEN env.fetch ELSE "ValueError"
        failed == IF fetch # "ok" THEN fetch
                  ELSE IF env.write # "ok" THEN "OSError" ELSE "none"
        others == {f \in d : f.name # filename}
        left == IF env.remove = "ok" THEN others
                ELSE others \cup {File(filename, <<>>)}
    IN  IF filename = <<>>
        THEN [raised |-> "ValueError", local |-> FALSE, fetched |-> FALSE,
              disk |-> d, outcome |-> "noname"]
        ELSE IF env.create # "ok"
        THEN [raised |-> "OSError", local |-> FALSE, fetched |-> FALSE,
              disk |-> d, outcome |-> "nocreate"]
        ELSE IF failed = "none"
        THEN [raised |-> "none", local |-> TRUE, fetched |-> TRUE,
              disk |-> others \cup {File(filename, src)}, outcome |-> "saved"]
        ELSE [raised |-> failed, local |-> FALSE, fetched |-> TRUE,
              disk |-> left, outcome |-> "failed"]

\* What one pass through lines 189-226 does for address src: the exception
\* that leaves the inner code ("none" when none does), whether the src is
\* rewritten to the file name, whether urlopen was called, and the disk.
Localise(d, src, env) ==
    LET filename == ImageFilename(src)
        fetch == IF HasScheme(src) THEN env.fetch ELSE "ValueError"
        failed == IF fetch # "ok" THEN fetch
                  ELSE IF env.write # "ok" THEN "OSError" ELSE "none"
        left == IF env.remove = "ok" THEN d ELSE d \cup {File(filename, <<>>)}
    IN  IF filename = <<>>
        THEN [raised |-> "ValueError", local |-> FALSE, fetched |-> FALSE,
              disk |-> d, outcome |-> "noname"]
        ELSE IF OnDisk(d, filename)
        THEN [raised |-> "none", local |-> TRUE, fetched |-> FALSE,
              disk |-> d, outcome |-> "exists"]
        ELSE IF env.create # "ok"
        THEN [raised |-> "OSError", local |-> FALSE, fetched |-> FALSE,
              disk |-> d, outcome |-> "nocreate"]
        ELSE IF failed = "none"
        THEN [raised |-> "none", local |-> TRUE, fetched |-> TRUE,
              disk |-> d \cup {File(filename, src)}, outcome |-> "saved"]
        ELSE [raised |-> failed, local |-> FALSE, fetched |-> TRUE,
              disk |-> left, outcome |-> "failed"]

CleanupImg(env) ==
    /\ At("img")
    /\ LET master == getAttribute(dom[Child], "master_src")
           src == IF master = <<>> THEN getAttribute(dom[Child], "src") ELSE master
           h1 == createElement(dom, "img")
           new_node == New(dom)
           h2 == setAttribute(h1, new_node, "src", src)
           h3 == setAttribute(h2, new_node, "alt", getAttribute(dom[Child], "alt"))
           r == Localise(disk, src, env)
           h4 == IF r.local
                 THEN setAttribute(h3, new_node, "src", ImageFilename(src))
                 ELSE h3
       IN  IF no_download
           THEN /\ dom' = appendChild(h3, Top.dest, new_node)
                /\ stack' = Advance
                /\ UNCHANGED <<pc, exc, disk, lastImg>>
           ELSE /\ dom' = appendChild(h4, Top.dest, new_node)
                /\ disk' = r.disk
                /\ lastImg' = [url |-> src, name |-> ImageFilename(src),
                               file |-> fi, node |-> new_node, dest |-> Top.dest,
                               outcome |-> r.outcome, raised |-> r.raised,
                               fetches |-> IF r.fetched THEN 1 ELSE 0]
                /\ IF r.raised = "none" \/ r.raised \in ImgCaught
                   THEN stack' = Advance /\ UNCHANGED <<pc, exc>>
                   ELSE Propagate(r.raised)
    /\ UNCHANGED mainVars

(***************************************************************************)
(* The main loop, lines 302-428.                                           *)
(***************************************************************************)
NoRegs == [title_node |-> 0, answer_node |-> 0, question_node |-> 0,
           post_node |-> 0, date_node |-> 0]
NoOuts == [new_page |-> 0, body_node |-> 0, answer_out_node |-> 0,
           question_out_node |-> 0]

\* re.match(r'<prefix> (.+ ago)', text): group(1), or <<>> when there is no
\* match.  The group is greedy: it ends with the last " ago" of the text.
AgoEnd(t) == IsLit(t, "m ago") \/ IsLit(t, "h ago")
MatchAgo(prefix, text) ==
    LET ends == {k \in 2..Len(text) : AgoEnd(text[k])}
    IN  IF Len(text) >= 2 /\ IsLit(text[1], prefix) /\ ends # {}
        THEN SubSeq(text, 2, CHOOSE k \in ends : \A q \in ends : q <= k)
        ELSE <<>>

\* The anchor whose text lines 355 and 366 assign: an index into
\* getElementsByTagName('a'), 0-based as in the source.
WrittenAnchor(kind) == IF kind = "CredibilityFacts" THEN 0 ELSE 1

\* Lines 350-357 and 360-368: the body of the try for the footer div node.
\* Every exception is caught and leaves the document as it is.
RewriteDate(h, node, kind, prefix, o) ==
    LET anchors == getElementsByTagName(h, node, "a")
        read == IF anchors = <<>> THEN 0 ELSE firstChild(h, anchors[1])
        matched == IF read = 0 \/ h[read].kind = "element" THEN <<>>
                   ELSE MatchAgo(prefix, h[read].data)
        r == parse_quora_date(o, matched)
        w == WrittenAnchor(kind) + 1
        target == IF w > Len(anchors) THEN 0 ELSE firstChild(h, anchors[w])
    IN  IF matched = <<>> \/ r.exc # "none" \/ target = 0 THEN h
        ELSE IF h[target].kind = "element" THEN h
        ELSE [h EXCEPT ![target].data = <<Lit(prefix)>> \o r.val]

\* Lines 324-368: the loop over the divs of the document, in document order.
RECURSIVE ScanDivs(_, _, _, _, _)
ScanDivs(h, r, divs, i, o) ==
    IF i > Len(divs) THEN [dom |-> h, regs |-> r]
    ELSE LET node == divs[i]
             cls == getAttribute(h[node], "class")
         IN  IF InSplit(cls, "ExpandedAnswer")
             THEN ScanDivs(h, [r EXCEPT !.answer_node = node], divs, i + 1, o)
             ELSE IF InSplit(cls, "ExpandedPostContent")
             THEN ScanDivs(h, [r EXCEPT !.post_node = node], divs, i + 1, o)
             ELSE IF InSplit(cls, "ans_page_question_header")
             THEN ScanDivs(h, [r EXCEPT !.question_node = node], divs, i + 1, o)
             ELSE IF InSplit(cls, "BoardItem")
             THEN ScanDivs(h, [r EXCEPT !.question_node = node], divs, i + 1, o)
             ELSE IF InSplit(cls, "CredibilityFacts")
             THEN ScanDivs(RewriteDate(h, node, "CredibilityFacts", "Answered ", o),
                           [r EXCEPT !.date_node = node], divs, i + 1, o)
             ELSE IF InSplit(cls, "PostFooter")
             THEN ScanDivs(RewriteDate(h, node, "PostFooter", "Posted ", o),
                           [r EXCEPT !.date_node = node], divs, i + 1, o)
             ELSE ScanDivs(h, r, divs, i + 1, o)

cleanVars == <<stack, disk, lastImg>>
runVars == <<origin, date_str, new_time, no_download, nfiles>>

NoPage == Txt("")

\* The for loop of line 302 goes to the next file, or ends.
NextFile ==
    /\ fi' = fi + 1
    /\ page' = NoPage
    /\ pc' = "read"
    /\ dom' = <<>>
    /\ regs' = NoRegs
    /\ outs' = NoOuts

\* Lines 303-318: read and parse the file, whose content is content; a file
\* that cannot be read is passed over.
ReadFile(readable, content) ==
    /\ pc = "read" /\ fi <= nfiles
    /\ IF readable
       THEN /\ page' = content
            /\ dom' = Load(<<>>, content, 0)
            /\ regs' = [NoRegs EXCEPT !.title_node = get_title_node(dom')]
            /\ pc' = "scan"
            /\ UNCHANGED <<fi, outs>>
       ELSE NextFile
    /\ UNCHANGED <<runVars, cleanVars, saved, exc>>

\* Lines 320-368.
Scan ==
    /\ pc = "scan"
    /\ LET r == ScanDivs(dom, regs, getElementsByTagName(dom, 1, "div"), 1, origin)
       IN  dom' = r.dom /\ regs' = r.regs
    /\ pc' = "check"
    /\ UNCHANGED <<runVars, cleanVars, fi, page, outs, saved, exc>>

\* Lines 369-374: both warnings format the name url, which nothing defines,
\* so the print raises NameError before the continue is reached.
CheckRegions ==
    /\ pc = "check"
    /\ IF (regs.answer_node = 0 /\ regs.post_node = 0) \/ regs.question_node = 0
       THEN pc' = "crashed" /\ exc' = Exc("NameError", "main", "")
       ELSE pc' = "assemble" /\ UNCHANGED exc
    /\ UNCHANGED <<runVars, cleanVars, fi, page, dom, regs, outs, saved>>

Css == <<Lit("blockquote { ... } li { margin: 0 0 8px; } ")>>
Fleuron == <<Lit("\\u2766")>>

\* Lines 377-411: the new page, and the call of cleanup_tree for the
\* question.  appendChild(None) at line 408 raises AttributeError.
Assemble ==
    /\ pc = "assemble"
    /\ LET new_page == New(dom)
           head_node == new_page + 1
           meta_node == new_page + 2
           style_node == new_page + 3
           css_text == new_page + 4
           body_node == new_page + 5
           answer_out_node == new_page + 6
           question_out_node == new_page + 7
           fleuron == new_page + 8
           qn_div == new_page + 9
           h1 == createElement(createElement(dom, "html"), "head")
           h2 == IF regs.title_node = 0 THEN h1
                 ELSE appendChild(h1, head_node, regs.title_node)
           h3 == appendChild(setAttribute(createElement(h2, "meta"), meta_node,
                                          "charset", <<Lit("utf-8")>>),
                             head_node, meta_node)
           h4 == setAttribute(createElement(h3, "style"), style_node,
                              "type", <<Lit("text/css")>>)
           h5 == appendChild(createTextNode(h4, Css), style_node, css_text)
           h6 == appendChild(appendChild(h5, head_node, style_node),
                             new_page, head_node)
           h7 == createElement(createElement(createElement(h6, "body"), "div"), "div")
           h8 == appendChild(h7, body_node, question_out_node)
           h9 == setAttribute(createElement(createTextNode(h8, Fleuron), "p"),
                              qn_div, "style", <<Lit("text-align: center;")>>)
           h10 == appendChild(appendChild(h9, body_node, qn_div), qn_div, fleuron)
           h11 == appendChild(h10, body_node, answer_out_node)
       IN  IF regs.date_node = 0
           THEN /\ dom' = h11
                /\ pc' = "crashed"
                /\ exc' = Exc("AttributeError", "main", "")
                /\ outs' = [new_page |-> new_page, body_node |-> body_node,
                            answer_out_node |-> answer_out_node,
                            question_out_node |-> question_out_node]
                /\ UNCHANGED stack
           ELSE /\ dom' = appendChild(h11, body_node, regs.date_node)
                /\ outs' = [new_page |-> new_page, body_node |-> body_node,
                            answer_out_node |-> answer_out_node,
                            question_out_node |-> question_out_node]
                /\ pc' = "question"
                /\ stack' = <<Frame(dom', regs.question_node, question_out_node, 0, 0)>>
                /\ UNCHANGED exc
    /\ UNCHANGED <<runVars, fi, page, regs, saved, disk, lastImg>>

\* Lines 412-415: the call of cleanup_tree for the post, or else the answer.
RewriteContent ==
    /\ pc = "question" /\ stack = <<>>
    /\ pc' = "content"
    /\ stack' = <<Frame(dom, IF regs.post_node = 0 THEN regs.answer_node
                             ELSE regs.post_node,
                        outs.answer_out_node, 0, 0)>>
    /\ UNCHANGED <<runVars, fi, page, dom, regs, outs, saved, exc, disk, lastImg>>

\* Lines 416-426: the page is serialized and written; a failure to write is
\* reported and the loop goes on.
SavePage(writable) ==
    /\ pc = "content" /\ stack = <<>>
    /\ saved' = IF writable THEN Append(saved, fi) ELSE saved
    /\ NextFile
    /\ UNCHANGED <<runVars, cleanVars, exc>>

\* Line 428.
Done ==
    /\ pc = "read" /\ fi > nfiles
    /\ pc' = "done"
    /\ UNCHANGED <<runVars, cleanVars, fi, page, dom, regs, outs, saved, exc>>

(***************************************************************************)
(* Inputs: addresses, the nodes an answer is made of, pages.               *)
(***************************************************************************)
Http == <<Lit("http:"), Slash, Slash, Lit("q.net")>>
UrlImg == Http \o <<Slash, Lit("img1")>>
UrlImgQuery == UrlImg \o <<Query, Lit("w=1")>>
UrlTex == Http \o <<Slash, Lit("tex"), Png>>
UrlNoName == Http \o <<Slash>>
UrlRelative == <<Slash, Lit("thumb")>>

Img(src) == EltA("img", [src |-> src, alt |-> <<Lit("pic")>>], <<>>)
ImgMaster(src, master) ==
    EltA("img", [src |-> src, master_src |-> master, alt |-> <<>>], <<>>)

KText == Txt("foo")
KBreak == Elt("br", <<>>)
KPara == Elt("p", <<Txt("x"), Elt("b", <<Txt("y")>>)>>)
KList == Elt("ul", <<Elt("li", <<Txt("1")>>), Elt("li", <<>>)>>)
KQuestionText ==
    EltC("span", <<Lit("question_text")>>,
         <<EltA("a", [href |-> <<Slash, Lit("Why")>>], <<Txt("Why?")>>)>>)
KBoardTitle == EltC("div", <<Lit("board_item_title")>>, <<Txt("My post")>>)
KNotTitle ==
    EltC("span", <<Lit("not_"), Lit("question_text"), Lit("_x")>>, <<Txt("n")>>)
KEmbed ==
    EltA("div", SetAttr(NoAttrs, "data-embed",
                        <<IframeOpen, Slash, Slash, Lit("youtube.com"), IframeClose>>),
         <<>>)
KEmbedBad ==
    EltA("div", SetAttr(NoAttrs, "data-embed", <<Lit("<p>"), Lit("video")>>),
         <<Txt("v")>>)
KInline ==
    EltC("span", <<Lit("inline_codeblock")>>,
         <<Elt("pre", <<Elt("span", <<Txt("x=1"), Elt("span", <<Txt("hl")>>)>>)>>)>>)
KInlineEmpty == EltC("span", <<Lit("inline_codeblock")>>, <<>>)
KInlineText == EltC("span", <<Lit("inline_codeblock")>>, <<Elt("pre", <<Txt("x")>>)>>)
KInlineWrong ==
    EltC("span", <<Lit("inline_codeblock")>>, <<Elt("pre", <<Elt("b", <<Txt("x")>>)>>)>>)
KFooter == EltC("div", <<Lit("ContentFooter")>>, <<Txt("share")>>)
KHidden == EltC("span", <<Lit("a"), Lit(" "), Lit("hidden")>>, <<Txt("h")>>)
KUnhidden == EltC("span", <<Lit("un"), Lit("hidden")>>, <<Txt("shown")>>)
KSpan == Elt("span", <<Txt("s"), Elt("i", <<Txt("t")>>)>>)
KLink == EltA("a", [href |-> <<Slash, Lit("Jane-Doe")>>], <<Txt("Jane")>>)
KLinkAbs == EltA("a", [href |-> Http], <<Elt("b", <<Txt("q")>>)>>)
KImg == Img(UrlImg)
KImgQuery == Img(UrlImgQuery)
KImgMaster == ImgMaster(UrlImg, UrlTex)
KImgNoName == Img(UrlNoName)
KImgRelative == Img(UrlRelative)
KImgTwice == Elt("div", <<Img(UrlImg), Img(UrlImg)>>)
KCodeBlock ==
    EltC("table", <<Lit("codeblocktable")>>,
         <<Elt("div", <<Elt("span", <<Txt("foo")>>), Elt("span", <<Txt("()")>>)>>),
           Elt("div", <<Elt("span", <<Txt("bar")>>)>>)>>)
KComment == Cmt("note")
KOther == Elt("em", <<Txt("e")>>)

\* Nodes made of text and pass-through tags only.
KQuote == Elt("blockquote", <<KPara, Txt("z")>>)
KStyled == EltC("i", <<Lit("qtext_para")>>, <<Txt("e")>>)
PlainKinds == {KText, KPara, KList, KQuote, KStyled}

Kinds ==
    PlainKinds \cup
    {KBreak, KQuestionText, KBoardTitle, KNotTitle, KEmbed, KEmbedBad, KInline,
     KInlineEmpty, KInlineText, KInlineWrong, KFooter, KHidden, KUnhidden, KSpan,
     KLink, KLinkAbs, KImg, KImgQuery, KImgMaster, KImgNoName, KImgRelative,
     KImgTwice, KCodeBlock, KComment, KOther}

\* The sequences over S of length 1..n.
SeqsUpTo(S, n) == UNION {[1..k -> S] : k \in 1..n}

(***************************************************************************)
(* cleanup_tree on its own: one call, for a source made of up to MaxKids   *)
(* of the nodes above and an empty destination.                            *)
(***************************************************************************)
MaxKids == 2

NotYet == [exc |-> "pending", val |-> <<>>]

NoImg == [url |-> <<>>, name |-> <<>>, file |-> 0, node |-> 0, dest |-> 0,
          outcome |-> "none", raised |-> "none", fetches |-> 0]

\* The source is node 1 and the destination the last node.
TreeInit ==
    /\ pc = "tree"
    /\ \E ks \in SeqsUpTo(Kinds, MaxKids) : page = Elt("div", ks)
    /\ dom = createElement(Load(<<>>, page, 0), "div")
    /\ stack = <<Frame(dom, 1, Len(dom), 0, 0)>>
    /\ no_download = FALSE
    /\ disk = {}
    /\ lastImg = NoImg
    /\ exc = NoExc
    /\ origin = 0 /\ date_str = <<>> /\ new_time = NotYet
    /\ nfiles = 0 /\ fi = 1 /\ regs = NoRegs /\ outs = NoOuts /\ saved = <<>>

CleanupNext ==
    \/ CleanupClone
    \/ CleanupNonElement
    \/ CleanupPassThrough
    \/ CleanupTitle
    \/ CleanupEmbed
    \/ CleanupInlineCode
    \/ CleanupSkip
    \/ CleanupUnwrap
    \/ CleanupAnchor
    \/ \E env \in ImgEnvs : CleanupImg(env)
    \/ CleanupCodeBlock
    \/ CleanupOther
    \/ CleanupReturn

TreeSpec == TreeInit /\ [][CleanupNext]_vars

(***************************************************************************)
(* parse_quora_date on its own: one call, for an origin and a string.      *)
(***************************************************************************)
\* 2015-01-01 00:00:00 (Thursday), 2015-02-01 00:00:00 (Sunday), 2015-03-01
\* 00:30:00 (Sunday), 2015-12-31 23:59:59 (Thursday), 2016-03-01 00:00:00
\* (Tuesday), all UTC.
DateOrigins == {1420070400, 1422748800, 1425169800, 1451606399, 1456790400}

MonthDay(m, d) == <<Lit(m), Lit(" "), Num(d)>>
MonthDayYear(m, d, y) == <<Lit(m), Lit(" "), Num(d), Lit(", "), Num(y)>>

DateStrs ==
    {<<Lit("just now")>>, <<Num(9), Lit("am")>>, <<Num(11), Lit("pm")>>,
     <<Num(1), Lit("m ago")>>, <<Num(45), Lit("m ago")>>,
     <<Num(3), Lit("h ago")>>, <<Num(23), Lit("h ago")>>,
     <<Lit("yesterday")>>, <<Num(3), Lit("d ago")>>}
    \cup {<<Lit(d)>> : d \in SeqRange(days_of_week)}
    \cup {MonthDay("Jan", 31), MonthDay("Feb", 29), MonthDay("Feb", 30),
          MonthDay("Mar", 1), MonthDay("Dec", 25), MonthDay("Dec", 31)}
    \cup {MonthDayYear("Jan", 31, 2015), MonthDayYear("Dec", 25, 2014),
          MonthDayYear("Feb", 29, 2016), MonthDayYear("Feb", 30, 2015),
          MonthDayYear("Jun", 5, 15)}

DateInit ==
    /\ pc = "date"
    /\ origin \in DateOrigins
    /\ date_str \in DateStrs
    /\ new_time = NotYet
    /\ no_download = FALSE /\ nfiles = 0 /\ fi = 1 /\ page = NoPage /\ dom = <<>>
    /\ regs = NoRegs /\ outs = NoOuts /\ stack = <<>> /\ disk = {}
    /\ lastImg = NoImg /\ saved = <<>> /\ exc = NoExc

\* The call parse_quora_date(origin, date_str).
Resolve ==
    /\ pc = "date"
    /\ new_time' = parse_quora_date(origin, date_str)
    /\ pc' = "dated"
    /\ UNCHANGED <<origin, date_str, no_download, nfiles, fi, page, dom, regs, outs,
                   stack, disk, lastImg, saved, exc>>

DateNext == Resolve

DateSpec == DateInit /\ [][DateNext]_vars

(***************************************************************************)
(* Pages.  A page has a title, and in its body the question div, the       *)
(* content div and the footer div, each of which may be missing.           *)
(***************************************************************************)
Anchor(text) == EltA("a", [href |-> <<Slash, Lit("log")>>], <<TxtT(text)>>)

Answered3h == <<Lit("Answered "), Num(3), Lit("h ago")>>
Posted30m == <<Lit("Posted "), Num(30), Lit("m ago")>>

CredFooter(kids) == EltC("div", <<Lit("CredibilityFacts")>>, kids)
PostFooter(kids) == EltC("div", <<Lit("PostFooter")>>, kids)

Footers ==
    {<<>>,
     <<CredFooter(<<Anchor(Answered3h)>>)>>,
     <<CredFooter(<<Anchor(Answered3h), Anchor(<<Lit("Upvote")>>)>>)>>,
     <<CredFooter(<<Anchor(<<Lit("Answered "), Lit("Jan"), Lit(" "), Num(5)>>)>>)>>,
     <<CredFooter(<<Txt("Answered")>>)>>,
     <<CredFooter(<<EltA("a", NoAttrs, <<Elt("span", <<TxtT(Answered3h)>>)>>)>>)>>,
     <<PostFooter(<<Anchor(Posted30m), Anchor(<<Lit("Comment")>>)>>)>>,
     <<PostFooter(<<Anchor(Posted30m)>>)>>,
     <<PostFooter(<<Anchor(<<Lit("Posted "), Lit("Tue")>>), Anchor(<<Lit("Comment")>>)>>)>>}

Region(cls, kids) ==
    IF cls = "none" THEN <<>>
    ELSE <<EltC("div", <<Lit("Region"), Lit(" "), Lit(cls)>>, kids)>>

Page(q, c, footer, qKids, cKids) ==
    Elt("html",
        <<Elt("head", <<Elt("title", <<Txt("Why? - Quora")>>)>>),
          Elt("body", Region(q, qKids) \o Region(c, cKids) \o footer)>>)

QuestionClasses == {"none", "ans_page_question_header", "BoardItem"}
ContentClasses == {"none", "ExpandedAnswer", "ExpandedPostContent"}

StdFooter == <<CredFooter(<<Anchor(Answered3h)>>)>>

\* A long answer: one node for each branch of cleanup_tree that returns.
LongAnswer ==
    <<KPara, KBoardTitle, KText, KEmbed, KInline, KFooter, KSpan, KLink,
      KCodeBlock, KOther, KBreak>>

Pages ==
    {Page(q, c, StdFooter, <<KQuestionText>>, <<KText>>) :
        q \in QuestionClasses, c \in ContentClasses}
    \cup {Page("ans_page_question_header", "ExpandedAnswer", f, <<KQuestionText>>, <<KPara>>) :
             f \in Footers}
    \cup {Page("BoardItem", "ExpandedPostContent", StdFooter, <<KText>>, <<k>>) :
             k \in {KImg, KImgTwice, KImgQuery, KImgNoName, KImgRelative, KComment,
                    KInlineEmpty}}
    \cup {Page("ans_page_question_header", "ExpandedAnswer", StdFooter, <<KText>>, LongAnswer),
          Elt("html", <<Elt("body", Region("ans_page_question_header", <<KText>>)
                                    \o Region("ExpandedAnswer", <<KText>>) \o StdFooter)>>)}

\* Sunday 2015-02-01 00:00:00 and Thursday 2015-12-31 23:59:59, UTC.
MainOrigins == {1422748800, 1451606399}

\* What earlier runs may have left in the output directory.
EarlierDisks == {{}, {File(ImageFilename(UrlImg), UrlImg)}}

MaxFiles == 2

Init ==
    /\ pc = "read"
    /\ origin \in MainOrigins
    /\ no_download \in BOOLEAN
    /\ nfiles \in 1..MaxFiles
    /\ fi = 1
    /\ page = NoPage
    /\ dom = <<>>
    /\ regs = NoRegs
    /\ outs = NoOuts
    /\ stack = <<>>
    /\ disk \in EarlierDisks
    /\ lastImg = NoImg
    /\ saved = <<>>
    /\ exc = NoExc
    /\ date_str = <<>> /\ new_time = NotYet

Next ==
    \/ \E readable \in BOOLEAN, content \in Pages : ReadFile(readable, content)
    \/ Scan
    \/ CheckRegions
    \/ Assemble
    \/ RewriteContent
    \/ \E writable \in BOOLEAN : SavePage(writable)
    \/ Done
    \/ CleanupNext

Spec == Init /\ [][Next]_vars

(***************************************************************************)
(* Properties                                                              *)
(***************************************************************************)
MissingRegion(r) ==
    (r.answer_node = 0 /\ r.post_node = 0) \/ r.question_node = 0

\* C1: a file without a content region or without a question region is
\* skipped: the step that finds the region missing writes no page and takes
\* the loop to the next file (and so, in the end, to Done).
C1_MissingRegionIsSkipped ==
    [][(pc = "check" /\ MissingRegion(regs))
         => (pc' = "read" /\ fi' = fi + 1 /\ saved' = saved /\ exc' = NoExc)]_vars

\* The calendar by counting: the date of day n after 1970-01-01.
YearLen(y) == IF IsLeap(y) THEN 366 ELSE 365
RECURSIVE MonthOfYear(_, _, _)
MonthOfYear(n, m, y) ==
    IF n < DaysInMonth(m, y) THEN [year |-> y, month |-> m, day |-> n + 1]
    ELSE MonthOfYear(n - DaysInMonth(m, y), m + 1, y)
RECURSIVE DateOfDay(_, _)
DateOfDay(n, y) ==
    IF n < YearLen(y) THEN MonthOfYear(n, 1, y) ELSE DateOfDay(n - YearLen(y), y + 1)
CalendarDate(t) == DateOfDay(t \div 86400, 1970)
Weekday(t) == ((t \div 86400) + 3) % 7

\* The days before the origin's, latest first, that a relative date may mean.
DaysBack(o, n) == {o - 86400 * k : k \in 1..n}
Latest(S) == CHOOSE t \in S : \A u \in S : u <= t

\* The instants at which the date that string s names, seen from origin o,
\* lies (none when s names no date); m5 strings name their date themselves.
Named(o, s) ==
    IF m0(s) \/ m6(s) THEN {o}
    ELSE IF m1(s) THEN {o - 60 * s[1].n}
    ELSE IF m2(s) THEN {o - 3600 * s[1].n}
    ELSE IF m3(s)
    THEN {t \in DaysBack(o, 7) : days_of_week[Weekday(t) + 1] = s[1].s}
    ELSE IF m4(s)
    THEN LET hits == {t \in DaysBack(o, 366) :
                         /\ months_of_year[CalendarDate(t).month] = s[1].s
                         /\ CalendarDate(t).day = s[3].n}
         IN  IF hits = {} THEN {} ELSE {Latest(hits)}
    ELSE {}

Rendering(d) ==
    <<Lit(months_of_year[d.month]), Lit(" "), Num(d.day), Lit(", "), Num(d.year)>>

ValidAbsolute(s) ==
    /\ m5(s) /\ s[5].n >= 1000 /\ s[5].n <= 9999 /\ s[3].n >= 1
    /\ s[3].n <= DaysInMonth(PyIndex(months_of_year, s[1].s) + 1, s[5].n)

\* C2: for a string of one of the six forms that names a date, the result
\* of parse_quora_date is that date, written with its own month's
\* abbreviation, its day and its year.
C2_DateIsTheOneNamed ==
    new_time # NotYet =>
        /\ \A t \in Named(origin, date_str) :
              new_time = [exc |-> "none", val |-> Rendering(CalendarDate(t))]
        /\ ValidAbsolute(date_str) =>
              new_time = [exc |-> "none",
                          val |-> Rendering([year |-> date_str[5].n,
                                             month |-> PyIndex(months_of_year, date_str[1].s) + 1,
                                             day |-> date_str[3].n])]

\* C3: no failure at a node (a node that is not an element, a malformed
\* embed descriptor, inline code or code block, an unrecognised element)
\* leaves cleanup_tree: it is caught where it arises.
C3_NodeFailuresAreCaught ==
    ~(exc.at = "cleanup_tree"
      /\ exc.rule \in {"raise", "embed", "inline", "codeblock", "other"})

NotSkipped(k) == Rule(dom[k]) # "skip"

\* C4: when a call of cleanup_tree is about to return, every child its
\* source had when the call began, other than the footer and hidden ones,
\* has been handled, in source order.
C4_EveryChildIsHandled ==
    (Running /\ ~HasChild) =>
        SelectSeq(Top.seen, NotSkipped) = SelectSeq(Top.kids0, NotSkipped)

\* C5: when a call of cleanup_tree is about to return, its source has the
\* children it had when the call began, in the same order, and each still
\* has the source as its parent.
C5_SourceIsUnchanged ==
    (Running /\ ~HasChild) =>
        /\ dom[Top.src].kids = Top.kids0
        /\ \A k \in SeqRange(Top.kids0) : dom[k].parent = Top.src

\* The address the image branch works with (lines 178-180).
ImgAddress(n) ==
    IF getAttribute(n, "master_src") = <<>> THEN getAttribute(n, "src")
    ELSE getAttribute(n, "master_src")

\* C6: a pass through the image branch for an address whose image an
\* earlier pass (of this file, of an earlier file or of an earlier run) has
\* fetched and saved makes no fetch, leaves the output directory as it is
\* and gives the img the file name as src; the pass that saves the image
\* makes one fetch and gives the img the same file name.
C6_LocalisedOnce ==
    [][(At("img") /\ ~no_download) =>
          LET u == ImgAddress(dom[Child])
              f == ImageFilename(u)
              img == dom'[lastImg'.node]
          IN  /\ File(f, u) \in disk =>
                    /\ lastImg'.fetches = 0
                    /\ disk' = disk
                    /\ getAttribute(img, "src") = f
              /\ (File(f, u) \notin disk /\ File(f, u) \in disk') =>
                    /\ lastImg'.fetches = 1
                    /\ getAttribute(img, "src") = f]_vars

\* The second file of a run has an image that was saved before: the branch
\* found the file through the failed exclusive create.
C6_Witness ==
    /\ lastImg.outcome = "exists" /\ lastImg.file = 2 /\ fi = 2
    /\ File(lastImg.name, lastImg.url) \in disk
    /\ pc = "content" /\ stack = <<>>
    /\ getAttribute(dom[lastImg.node], "src") = lastImg.name

Count(seq, x) == Cardinality({i \in 1..Len(seq) : seq[i] = x})

\* C7: when localising an image fails, the program goes on (no exception
\* leaves the image branch), the file that was created is gone, and the img
\* is in the destination once, with the remote address as its src.
C7_ImageFailureIsHarmless ==
    /\ ~(exc.at = "cleanup_tree" /\ exc.rule = "img")
    /\ lastImg.outcome = "failed" => ~OnDisk(disk, lastImg.name)
    /\ (/\ lastImg.outcome \in {"noname", "nocreate", "failed"}
        /\ lastImg.file = fi /\ pc \in {"question", "content", "crashed"}) =>
          /\ Count(dom[lastImg.dest].kids, lastImg.node) = 1
          /\ getAttribute(dom[lastImg.node], "src") = lastImg.url

\* The footer kind of a div, by the elif chain of lines 327-358.
FooterKind(cls) ==
    IF \E c \in {"ExpandedAnswer", "ExpandedPostContent",
                 "ans_page_question_header", "BoardItem"} : InSplit(cls, c)
    THEN "none"
    ELSE IF InSplit(cls, "CredibilityFacts") THEN "CredibilityFacts"
    ELSE IF InSplit(cls, "PostFooter") THEN "PostFooter"
    ELSE "none"

\* C8: after the scan of the divs, in each footer the text of the first
\* anchor, if it matched and its date resolved, is the prefix followed by
\* the resolved date, and every other text of the footer is as it was read.
C8_FooterDateInPlace ==
    pc = "check" =>
        LET orig == Load(<<>>, page, 0)
        IN  \A d \in SeqRange(getElementsByTagName(orig, 1, "div")) :
              LET kind == FooterKind(getAttribute(orig[d], "class"))
                  prefix == IF kind = "CredibilityFacts" THEN "Answered " ELSE "Posted "
                  anchors == getElementsByTagName(orig, d, "a")
                  read == IF anchors = <<>> THEN 0 ELSE firstChild(orig, anchors[1])
                  matched == IF read = 0 \/ orig[read].kind = "element" THEN <<>>
                             ELSE MatchAgo(prefix, orig[read].data)
                  resolved == IF matched = <<>> THEN Raise("no match")
                              ELSE parse_quora_date(origin, matched)
              IN  kind # "none" =>
                    \A t \in SeqRange(Descendants(orig, d)) :
                       dom[t].data = IF t = read /\ resolved.exc = "none"
                                     THEN <<Lit(prefix)>> \o resolved.val
                                     ELSE orig[t].data

\* The tags and the nodes claim C9 is about.
PlainTags == {"b", "i", "u", "h1", "h2", "ol", "ul", "li", "blockquote", "wbr", "p"}
Markers == {"question_text", "board_item_title", "inline_codeblock",
            "ContentFooter", "hidden", "codeblocktable"}
RECURSIVE Plain(_)
Plain(t) ==
    \/ t.kind = "text"
    \/ /\ t.kind = "element" /\ t.tag \in PlainTags
       /\ \A mk \in Markers : ~Contains(getAttribute(t, "class"), mk)
       /\ \A i \in 1..Len(t.kids) : Plain(t.kids[i])

RECURSIVE Shape(_)
Shape(t) ==
    [tag |-> t.tag, data |-> t.data,
     kids |-> [i \in 1..Len(t.kids) |-> Shape(t.kids[i])]]

PlainSourceDone ==
    /\ pc = "tree" /\ Len(stack) = 1 /\ ~HasChild
    /\ \A i \in 1..Len(page.kids) : Plain(page.kids[i])

\* C9: when the call of cleanup_tree for a source made of text and
\* pass-through tags only is about to return, the children of the
\* destination have the tags, the text, the order and the nesting of the
\* children of the source as it was given.
C9_PlainSubtreeIsCopied ==
    PlainSourceDone => Shape(Struct(dom, Top.dest)).kids = Shape(page).kids

\* Such a call, for a source of two children, one with elements nested in it.
C9_Witness ==
    /\ PlainSourceDone
    /\ Len(page.kids) = 2
    /\ \E i \in 1..2 : \E j \in 1..Len(page.kids[i].kids) :
          page.kids[i].kids[j].kids # <<>>

\* C10: the branch for titles, inline code, footer and hidden nodes, and
\* code blocks is taken only for a node that has the marker as a token of
\* its space-separated class list.
C10_MarkersAreTokens ==
    (Running /\ HasChild) =>
        LET cls == getAttribute(dom[Child], "class")
            rule == Rule(dom[Child])
        IN  /\ rule = "title" =>
                 InSplit(cls, "question_text") \/ InSplit(cls, "board_item_title")
            /\ rule = "inline" => InSplit(cls, "inline_codeblock")
            /\ rule = "skip" => InSplit(cls, "ContentFooter") \/ InSplit(cls, "hidden")
            /\ rule = "codeblock" => InSplit(cls, "codeblocktable")

\* The page as read has no div whose class list names a footer.
NoFooterDiv ==
    LET orig == Load(<<>>, page, 0)
    IN  \A d \in SeqRange(getElementsByTagName(orig, 1, "div")) :
           LET cls == getAttribute(orig[d], "class")
           IN  ~InSplit(cls, "CredibilityFacts") /\ ~InSplit(cls, "PostFooter")

\* C11: a file that has a content region and a question region (it has
\* passed the tests of lines 369-374) and no footer div is converted: the
\* assembly of its new page raises nothing and goes on to the rewrite of
\* the question, from where the page is saved and the next file is read.
C11_FooterIsOptional ==
    [][(pc = "assemble" /\ NoFooterDiv) => (pc' = "question" /\ exc' = NoExc)]_vars

====
